---- MODULE Spec2Model ----
(***************************************************************************)
(* The dispatch and execution core of the async job engine:                *)
(*   app/api/jobs.py          create_job, cancel_job, retry_job            *)
(*   app/redis_client.py      RedisQueue (sorted set + processing set)     *)
(*   app/workers/manager.py   WorkerManager (poll loop, retry loop)        *)
(*   app/workers/executor.py  JobExecutor (claim, outcome, retry policy)   *)
(*                                                                         *)
(* Every await of the source is a point where other tasks and processes    *)
(* run, so a coroutine is cut into actions at its awaits on the store and  *)
(* on the queue.  Instants are kept as their distance from the current     *)
(* instant (next_retry_at = 2 means "two ticks from now", 0 means "now or  *)
(* earlier"); started_at, completed_at and duration_seconds are kept as    *)
(* set / not set.                                                          *)
(***************************************************************************)
EXTENDS Integers, FiniteSets, Sequences, Bags, TLC

\* ------------------------------------------------------------------ bounds
NumJobs == 2            \* job ids the store can hold
SpecJobs == 1           \* jobs submitted in the single-job specifications
NumDispatchers == 2     \* WorkerManager processes sharing store and queue
MAX_WORKERS == 2        \* Settings.MAX_WORKERS as configured in the model
MaxRetries == 2         \* largest max_retries a submitted job carries
MaxRetryCalls == 1      \* retry_job requests a behaviour of Spec may contain
BackoffAttempts == 5    \* failed attempts the backoff specification follows

\* ------------------------------------------------------- program constants
RETRY_BACKOFF_BASE == 2
NORMAL == 5
NULL == -1

JobIds == 1..NumJobs
Dispatchers == 1..NumDispatchers
NoJob == 0

PENDING == "pending"
QUEUED == "queued"
RUNNING == "running"
COMPLETED == "completed"
FAILED == "failed"
RETRYING == "retrying"
CANCELLED == "cancelled"

JobStatus == {PENDING, QUEUED, RUNNING, COMPLETED, FAILED, RETRYING, CANCELLED}
Claimable == {PENDING, QUEUED, RETRYING}
Terminal == {COMPLETED, FAILED, CANCELLED}

\* JobType, and the types HANDLER_MAP has a handler for
JobType == {"email", "ai_task", "data_cleaning"}
HANDLER_MAP == {"email", "ai_task", "data_cleaning"}

\* settings.RETRY_BACKOFF_BASE ** job.attempt
RECURSIVE Pow(_, _)
Pow(b, n) == IF n = 0 THEN 1 ELSE b * Pow(b, n - 1)

\* error_message: NULL, str(e), or "Attempt {attempt} failed: {error}"
NoError == [prefix |-> 0, error |-> "null"]
PlainError(e) == [prefix |-> 0, error |-> e]
AttemptError(n, e) == [prefix |-> n, error |-> e]

\* A row of the jobs table as Job(...) builds it in create_job
NewJob(type, prio, maxr, sched, seq) ==
  [ job_type |-> type, status |-> QUEUED, priority |-> prio,
    result |-> FALSE, error_message |-> NoError,
    attempt |-> 0, max_retries |-> maxr, next_retry_at |-> NULL,
    created_at |-> seq, scheduled_at |-> sched,
    started_at |-> FALSE, completed_at |-> FALSE, duration_seconds |-> FALSE,
    worker_id |-> NoJob ]

VARIABLES
  rowState,      \* [JobIds -> "none" | "flushed" | "committed"]: the INSERT
  jobs,          \* [JobIds -> row]: the jobs table
  rowLock,       \* [JobIds -> "free" | "claim" | "cancel" | "retry"]: FOR UPDATE
  queue,         \* job_queue:priority, a set of <<id, score>>
  processing,    \* job_queue:processing
  stats,         \* job_stats
  pollJob,       \* [Dispatchers -> id]: dequeued by _poll_loop, awaiting a permit
  semaphore,     \* [Dispatchers -> permits left]
  tasks,         \* [Dispatchers -> bag of executor tasks]: _active_tasks
  retry_ids,     \* [Dispatchers -> set of ids]: the sweep's scan, not yet handled
  retryBudget,   \* retry_job requests the client may still make
  redisUp,       \* the queue backend answers (FALSE: its operations raise)
  loops          \* [Dispatchers -> "polling" | "backoff" | "stopping" | "stopped"]

vars == << rowState, jobs, rowLock, queue, processing, stats, pollJob,
           semaphore, tasks, retry_ids, retryBudget, redisUp, loops >>

storeVars == << rowState, jobs, rowLock >>
redisVars == << queue, processing, stats >>
managerVars == << pollJob, semaphore, tasks, retry_ids >>
envVars == << redisUp, loops >>

InitWith(budget) ==
  /\ rowState = [j \in JobIds |-> "none"]
  /\ jobs = [j \in JobIds |-> NewJob("email", NORMAL, 0, NULL, 0)]
  /\ rowLock = [j \in JobIds |-> "free"]
  /\ queue = {}
  /\ processing = {}
  /\ stats = [enqueued |-> 0, completed |-> 0, failed |-> 0, retries |-> 0]
  /\ pollJob = [d \in Dispatchers |-> NoJob]
  /\ semaphore = [d \in Dispatchers |-> MAX_WORKERS]
  /\ tasks = [d \in Dispatchers |-> EmptyBag]
  /\ retry_ids = [d \in Dispatchers |-> {}]
  /\ retryBudget = budget
  /\ redisUp = TRUE
  /\ loops = [d \in Dispatchers |-> "polling"]

Init == InitWith(MaxRetryCalls)

\* ------------------------------------------------------------ RedisQueue
\* (mutant) the entry added without replacing the one the id already has
enqueuePush(q, id, priority) == q \cup {<<id, 0 - priority>>}

\* zadd QUEUE_KEY {job_id: -priority}: one entry per id, the score replaced
enqueue(q, id, priority) ==
  {e \in q : e[1] # id} \cup {<<id, 0 - priority>>}

\* (mutant) zpopmax: the members of the highest score
PopMax(q) == {e \in q : \A f \in q : e[2] >= f[2]}

\* the members zpopmin may return: those of the lowest score
PopMin(q) == {e \in q : \A f \in q : e[2] <= f[2]}

\* zrem QUEUE_KEY job_id
zrem(q, id) == {e \in q : e[1] # id}

increment_stat(s, name) == [s EXCEPT ![name] = @ + 1]

\* mark_done: srem PROCESSING_KEY job_id
mark_done(p, id) == p \ {id}

\* ------------------------------------------------------------ the clock
Elapse(t) == IF t > 0 THEN t - 1 ELSE t

\* One unit of wall-clock time passes: every instant still ahead comes closer.
Tick ==
  /\ \E j \in JobIds :
       rowState[j] # "none" /\ (jobs[j].next_retry_at > 0 \/ jobs[j].scheduled_at > 0)
  /\ jobs' = [j \in JobIds |->
               [jobs[j] EXCEPT !.next_retry_at = Elapse(@),
                               !.scheduled_at = Elapse(@)]]
  /\ UNCHANGED << rowState, rowLock, redisVars, managerVars, retryBudget, envVars >>

\* ------------------------------------------------------------ api/jobs.py
\* create_job up to its return: the INSERT is flushed, not yet committed, and
\* the id is already in the queue.
SubmitFlush(j, type, prio, maxr, sched) ==
  /\ rowState[j] = "none"
  /\ \A i \in JobIds : i < j => rowState[i] # "none"
  /\ rowState' = [rowState EXCEPT ![j] = "flushed"]
  /\ jobs' = [jobs EXCEPT ![j] =
               NewJob(type, prio, maxr, sched,
                      Cardinality({i \in JobIds : rowState[i] # "none"}))]
  /\ queue' = enqueue(queue, j, prio)
  /\ stats' = increment_stat(stats, "enqueued")
  /\ UNCHANGED << rowLock, processing, managerVars, retryBudget, envVars >>

\* the request's session commits after create_job has returned
SubmitCommit(j) ==
  /\ rowState[j] = "flushed"
  /\ rowState' = [rowState EXCEPT ![j] = "committed"]
  /\ UNCHANGED << jobs, rowLock, redisVars, managerVars, retryBudget, envVars >>

\* (mutant) cancel_job's check without COMPLETED
CancelAcceptsCompleted(st) == st # CANCELLED

\* the statuses cancel_job accepts
CancelAccepts(st) == st \notin {COMPLETED, CANCELLED}

\* (mutant) cancel_job without its write of completed_at
CancelledRowUndated(row) == [row EXCEPT !.status = CANCELLED]

\* (mutant) cancel_job also resetting the attempt counter
CancelledRowReset(row) ==
  [row EXCEPT !.status = CANCELLED, !.completed_at = TRUE, !.attempt = 0]

\* the row cancel_job writes
CancelledRow(row) == [row EXCEPT !.status = CANCELLED, !.completed_at = TRUE]

\* cancel_job up to its return: SELECT ... FOR UPDATE waits for the row lock,
\* the status is checked, the change is flushed and the id leaves the queue.
CancelBegin(j) ==
  /\ rowState[j] = "committed"
  /\ rowLock[j] = "free"
  /\ CancelAccepts(jobs[j].status)
  /\ rowLock' = [rowLock EXCEPT ![j] = "cancel"]
  /\ queue' = zrem(queue, j)
  /\ processing' = mark_done(processing, j)
  /\ UNCHANGED << rowState, jobs, stats, managerVars, retryBudget, envVars >>

\* the request's session commits: the change shows and the lock is released
CancelCommit(j) ==
  /\ rowLock[j] = "cancel"
  /\ jobs' = [jobs EXCEPT ![j] = CancelledRow(@)]
  /\ rowLock' = [rowLock EXCEPT ![j] = "free"]
  /\ UNCHANGED << rowState, redisVars, managerVars, retryBudget, envVars >>

\* the statuses retry_job accepts
RetryAccepts(st) == st \in {FAILED, CANCELLED}

\* (mutant) retry_job without its reset of attempt
ResetRowKeepsAttempt(row) ==
  [row EXCEPT !.status = QUEUED, !.error_message = NoError,
              !.result = FALSE, !.started_at = FALSE, !.completed_at = FALSE,
              !.duration_seconds = FALSE, !.next_retry_at = NULL]

\* the row retry_job writes
ResetRow(row) ==
  [row EXCEPT !.status = QUEUED, !.attempt = 0, !.error_message = NoError,
              !.result = FALSE, !.started_at = FALSE, !.completed_at = FALSE,
              !.duration_seconds = FALSE, !.next_retry_at = NULL]

\* retry_job up to its return
RetryBegin(j) ==
  /\ rowState[j] = "committed"
  /\ rowLock[j] = "free"
  /\ RetryAccepts(jobs[j].status)
  /\ retryBudget > 0
  /\ retryBudget' = retryBudget - 1
  /\ rowLock' = [rowLock EXCEPT ![j] = "retry"]
  /\ queue' = enqueue(queue, j, jobs[j].priority)
  /\ UNCHANGED << rowState, jobs, processing, stats, managerVars, envVars >>

RetryCommit(j) ==
  /\ rowLock[j] = "retry"
  /\ jobs' = [jobs EXCEPT ![j] = ResetRow(@)]
  /\ rowLock' = [rowLock EXCEPT ![j] = "free"]
  /\ UNCHANGED << rowState, redisVars, managerVars, retryBudget, envVars >>

\* ------------------------------------------------- workers/manager.py
\* the rows the store fallback of _dequeue_job may return: PENDING or QUEUED,
\* scheduled_at null or due, not locked (SKIP LOCKED)
FallbackRows ==
  {j \in JobIds :
     /\ rowState[j] = "committed"
     /\ rowLock[j] = "free"
     /\ jobs[j].status \in {PENDING, QUEUED}
     /\ (jobs[j].scheduled_at = NULL \/ jobs[j].scheduled_at <= 0)}

\* ORDER BY priority DESC, created_at ASC LIMIT 1
FallbackFirst ==
  {j \in FallbackRows :
     \A i \in FallbackRows :
        \/ jobs[j].priority > jobs[i].priority
        \/ (jobs[j].priority = jobs[i].priority
            /\ jobs[j].created_at <= jobs[i].created_at)}

\* a JobExecutor task as _run_job starts it
NewTask(j) == [job |-> j, pc |-> "claim", attempt |-> 0]

\* (mutant) the task is created without a permit being taken
StartWithoutPermit(d, j) ==
  /\ semaphore' = semaphore
  /\ tasks' = [tasks EXCEPT ![d] = @ (+) SetToBag({[job |-> j, pc |-> "claim", attempt |-> 0]})]
  /\ pollJob' = [pollJob EXCEPT ![d] = NoJob]

\* semaphore.acquire() took a permit: create_task(_run_job(job_id)),
\* _active_tasks.add(task)
Start(d, j) ==
  /\ semaphore' = [semaphore EXCEPT ![d] = @ - 1]
  /\ tasks' = [tasks EXCEPT ![d] = @ (+) SetToBag({NewTask(j)})]
  /\ pollJob' = [pollJob EXCEPT ![d] = NoJob]

\* _poll_loop with the id _dequeue_job returned: with a permit free acquire()
\* does not suspend and the task is created at once, otherwise the loop waits
\* in acquire() holding the id
Dispatch(d, j) ==
  IF semaphore[d] > 0
    THEN Start(d, j)
    ELSE /\ pollJob' = [pollJob EXCEPT ![d] = j]
         /\ UNCHANGED << semaphore, tasks >>

\* (mutant) _dequeue_job without its store fallback
DequeueQueueOnly(d) ==
  /\ pollJob[d] = NoJob
  /\ \E e \in PopMin(queue) :
       /\ queue' = queue \ {e}
       /\ processing' = processing \cup {e[1]}
       /\ Dispatch(d, e[1])
  /\ UNCHANGED << storeVars, stats, retry_ids, retryBudget, envVars >>

\* (mutant) _dequeue_job reading the head of the queue (zrange) and leaving
\* it there
DequeuePeek(d) ==
  /\ pollJob[d] = NoJob
  /\ IF queue # {}
       THEN \E e \in PopMin(queue) :
              /\ queue' = queue
              /\ processing' = processing \cup {e[1]}
              /\ Dispatch(d, e[1])
       ELSE \E j \in FallbackFirst :
              /\ Dispatch(d, j)
              /\ UNCHANGED << queue, processing >>
  /\ UNCHANGED << storeVars, stats, retry_ids, retryBudget, envVars >>

\* One iteration of _poll_loop: _dequeue_job pops the queue and, when the
\* queue gave nothing, reads the store.
Dequeue(d) ==
  /\ pollJob[d] = NoJob
  /\ IF queue # {}
       THEN \E e \in PopMin(queue) :
              /\ queue' = queue \ {e}
              /\ processing' = processing \cup {e[1]}
              /\ Dispatch(d, e[1])
       ELSE \E j \in FallbackFirst :
              /\ Dispatch(d, j)
              /\ UNCHANGED << queue, processing >>
  /\ UNCHANGED << storeVars, stats, retry_ids, retryBudget, envVars >>

\* _poll_loop waiting in semaphore.acquire(): a permit was released
Launch(d) ==
  /\ pollJob[d] # NoJob
  /\ semaphore[d] > 0
  /\ Start(d, pollJob[d])
  /\ UNCHANGED << storeVars, redisVars, retry_ids, retryBudget, envVars >>

\* _task_done: the task leaves _active_tasks and its permit is released
TaskDone(d, t) ==
  /\ tasks' = [tasks EXCEPT ![d] = @ (-) SetToBag({t})]
  /\ semaphore' = [semaphore EXCEPT ![d] = @ + 1]

\* a task moves on to its next await
TaskStep(d, t, u) ==
  /\ tasks' = [tasks EXCEPT ![d] = (@ (-) SetToBag({t})) (+) SetToBag({u})]
  /\ UNCHANGED semaphore

\* (mutant) the scan with its comparison of next_retry_at reversed
DueRetriesReversed ==
  {j \in JobIds :
     /\ rowState[j] = "committed"
     /\ jobs[j].status = RETRYING
     /\ jobs[j].next_retry_at # NULL
     /\ jobs[j].next_retry_at > 0}

\* the rows the scan of _retry_loop selects from
DueRetries ==
  {j \in JobIds :
     /\ rowState[j] = "committed"
     /\ jobs[j].status = RETRYING
     /\ jobs[j].next_retry_at # NULL
     /\ jobs[j].next_retry_at <= 0}

\* _retry_loop: the scan, LIMIT MAX_WORKERS
SweepScan(d) ==
  /\ retry_ids[d] = {}
  /\ \E S \in SUBSET DueRetries :
       /\ S # {}
       /\ Cardinality(S) = IF Cardinality(DueRetries) < MAX_WORKERS
                             THEN Cardinality(DueRetries) ELSE MAX_WORKERS
       /\ retry_ids' = [retry_ids EXCEPT ![d] = S]
  /\ UNCHANGED << storeVars, redisVars, pollJob, semaphore, tasks, retryBudget, envVars >>

\* job_result.scalar() or 5
SweepPriority(p) == IF p = 0 THEN NORMAL ELSE p

\* _retry_loop: one id of the scan is put back into the queue
SweepEnqueue(d, j) ==
  /\ j \in retry_ids[d]
  /\ queue' = enqueue(queue, j, SweepPriority(jobs[j].priority))
  /\ retry_ids' = [retry_ids EXCEPT ![d] = @ \ {j}]
  /\ UNCHANGED << storeVars, processing, stats, pollJob, semaphore, tasks, retryBudget, envVars >>

\* ------------------------------------------------- workers/executor.py
\* (mutant) the claim's SELECT without FOR UPDATE SKIP LOCKED
ClaimFindsUnlocked(j) ==
  /\ rowState[j] = "committed"
  /\ jobs[j].status \in Claimable

\* (mutant) the claim's SELECT without the filter on status
ClaimFindsAnyStatus(j) ==
  /\ rowState[j] = "committed"
  /\ rowLock[j] = "free"

\* _claim_job's SELECT ... WHERE status IN (...) FOR UPDATE SKIP LOCKED returns
\* the row: it is committed, in a claimable status and not locked.
ClaimFinds(j) ==
  /\ rowState[j] = "committed"
  /\ rowLock[j] = "free"
  /\ jobs[j].status \in Claimable

\* the row _claim_job writes
ClaimedRow(row, wid) ==
  [row EXCEPT !.status = RUNNING, !.started_at = TRUE,
              !.attempt = @ + 1, !.worker_id = wid]

\* execute, first await: the claim's SELECT.  With a row the executor holds
\* its lock; without one execute returns False and the task is done.
ClaimSelect(d, t) ==
  /\ BagIn(t, tasks[d])
  /\ t.pc = "claim"
  /\ IF ClaimFinds(t.job)
       THEN /\ rowLock' = [rowLock EXCEPT ![t.job] = "claim"]
            /\ TaskStep(d, t, [t EXCEPT !.pc = "claimed"])
       ELSE /\ TaskDone(d, t)
            /\ UNCHANGED rowLock
  /\ UNCHANGED << rowState, jobs, redisVars, pollJob, retry_ids, retryBudget, envVars >>

\* _claim_job's commit and refresh: the executor's Job object now holds the
\* row as claimed.
ClaimCommit(d, t) ==
  /\ BagIn(t, tasks[d])
  /\ t.pc = "claimed"
  /\ jobs' = [jobs EXCEPT ![t.job] = ClaimedRow(@, d)]
  /\ rowLock' = [rowLock EXCEPT ![t.job] = "free"]
  /\ TaskStep(d, t, [t EXCEPT !.pc = "run", !.attempt = jobs[t.job].attempt + 1])
  /\ UNCHANGED << rowState, redisVars, pollJob, retry_ids, retryBudget, envVars >>

\* the row _complete_job writes
CompletedRow(row) ==
  [row EXCEPT !.status = COMPLETED, !.result = TRUE, !.completed_at = TRUE,
              !.duration_seconds = TRUE, !.error_message = NoError]

\* the row _fail_job writes
FailedRow(row, e) ==
  [row EXCEPT !.status = FAILED, !.error_message = PlainError(e),
              !.completed_at = TRUE, !.duration_seconds = TRUE]

\* (mutant) the backoff taken from the attempt counter before its increment
RetryingRowEarly(row, t, e) ==
  [row EXCEPT !.status = RETRYING,
              !.next_retry_at = Pow(RETRY_BACKOFF_BASE, t.attempt - 1),
              !.error_message = AttemptError(t.attempt, e)]

\* the row _handle_failure writes when it retries
RetryingRow(row, t, e) ==
  [row EXCEPT !.status = RETRYING,
              !.next_retry_at = Pow(RETRY_BACKOFF_BASE, t.attempt),
              !.error_message = AttemptError(t.attempt, e)]

\* _handle_failure's test, on the executor's Job object
ShouldRetry(t, maxr) == t.attempt < maxr

\* execute: the handler returned and _complete_job ran
Complete(d, t) ==
  /\ BagIn(t, tasks[d])
  /\ t.pc = "run"
  /\ jobs[t.job].job_type \in HANDLER_MAP
  /\ rowLock[t.job] = "free"
  /\ jobs' = [jobs EXCEPT ![t.job] = CompletedRow(@)]
  /\ processing' = mark_done(processing, t.job)
  /\ stats' = increment_stat(stats, "completed")
  /\ TaskDone(d, t)
  /\ UNCHANGED << rowState, rowLock, queue, pollJob, retry_ids, retryBudget, envVars >>

\* _fail_job
FailJob(d, t, e) ==
  /\ jobs' = [jobs EXCEPT ![t.job] = FailedRow(@, e)]
  /\ processing' = mark_done(processing, t.job)
  /\ stats' = increment_stat(stats, "failed")
  /\ TaskDone(d, t)
  /\ UNCHANGED << rowState, rowLock, queue, pollJob, retry_ids, retryBudget, envVars >>

\* (mutant) _handle_failure putting the job back into the queue itself
HandleFailureEnqueues(d, t, e) ==
  IF ShouldRetry(t, jobs[t.job].max_retries)
    THEN /\ jobs' = [jobs EXCEPT ![t.job] = RetryingRow(@, t, e)]
         /\ processing' = mark_done(processing, t.job)
         /\ stats' = increment_stat(stats, "retries")
         /\ queue' = enqueue(queue, t.job, jobs[t.job].priority)
         /\ TaskDone(d, t)
         /\ UNCHANGED << rowState, rowLock, pollJob, retry_ids, retryBudget, envVars >>
    ELSE FailJob(d, t, e)

\* _handle_failure
HandleFailure(d, t, e) ==
  IF ShouldRetry(t, jobs[t.job].max_retries)
    THEN /\ jobs' = [jobs EXCEPT ![t.job] = RetryingRow(@, t, e)]
         /\ processing' = mark_done(processing, t.job)
         /\ stats' = increment_stat(stats, "retries")
         /\ TaskDone(d, t)
         /\ UNCHANGED << rowState, rowLock, queue, pollJob, retry_ids, retryBudget, envVars >>
    ELSE FailJob(d, t, e)

\* (mutant) execute without its except asyncio.TimeoutError: the timeout
\* leaves execute, _run_job logs it and the task is done
FailTimeoutPropagates(d, t, e) ==
  /\ BagIn(t, tasks[d])
  /\ t.pc = "run"
  /\ jobs[t.job].job_type \in HANDLER_MAP
  /\ rowLock[t.job] = "free"
  /\ IF e = "timeout"
       THEN /\ TaskDone(d, t)
            /\ UNCHANGED << storeVars, redisVars, pollJob, retry_ids, retryBudget, envVars >>
       ELSE HandleFailure(d, t, e)

\* execute: the handler raised ("error") or wait_for timed out ("timeout")
Fail(d, t, e) ==
  /\ BagIn(t, tasks[d])
  /\ t.pc = "run"
  /\ jobs[t.job].job_type \in HANDLER_MAP
  /\ rowLock[t.job] = "free"
  /\ HandleFailure(d, t, e)

\* (mutant) a missing handler handed to the retry policy
NoHandlerRetries(d, t) ==
  /\ BagIn(t, tasks[d])
  /\ t.pc = "run"
  /\ jobs[t.job].job_type \notin HANDLER_MAP
  /\ rowLock[t.job] = "free"
  /\ HandleFailure(d, t, "no_handler")

\* execute: HANDLER_MAP has no handler for the job's type
NoHandler(d, t) ==
  /\ BagIn(t, tasks[d])
  /\ t.pc = "run"
  /\ jobs[t.job].job_type \notin HANDLER_MAP
  /\ rowLock[t.job] = "free"
  /\ FailJob(d, t, "no_handler")

\* execute raises out of a store operation (the store is unreachable): the
\* session closes, an open transaction is rolled back and its row lock
\* released, _run_job logs the error and the task is done.
Raise(d, t) ==
  /\ BagIn(t, tasks[d])
  /\ rowLock' = IF t.pc = "claimed" THEN [rowLock EXCEPT ![t.job] = "free"] ELSE rowLock
  /\ TaskDone(d, t)
  /\ UNCHANGED << rowState, jobs, redisVars, pollJob, retry_ids, retryBudget, envVars >>

\* ------------------------------------------------------ specifications
ActiveTasks(d) == BagToSet(tasks[d])

\* the poll loops
Polls == \E d \in Dispatchers : Dequeue(d) \/ Launch(d)

\* the retry loops
Sweeps ==
  \E d \in Dispatchers : SweepScan(d) \/ \E j \in JobIds : SweepEnqueue(d, j)

\* executors claiming
Claims ==
  \E d \in Dispatchers : \E t \in ActiveTasks(d) :
    ClaimSelect(d, t) \/ ClaimCommit(d, t)

\* handlers returning
Successes == \E d \in Dispatchers : \E t \in ActiveTasks(d) : Complete(d, t)

\* handlers raising or timing out
Failures(E) ==
  \E d \in Dispatchers : \E t \in ActiveTasks(d) : \E e \in E : Fail(d, t, e)

\* a client submitting jobs of a registered type at NORMAL priority, unscheduled
Submits(R) ==
  \E j \in 1..SpecJobs :
    \/ \E maxr \in R : SubmitFlush(j, "email", NORMAL, maxr, NULL)
    \/ SubmitCommit(j)

\* a client cancelling and retrying jobs
Requests ==
  \E j \in JobIds :
    \/ CancelBegin(j)
    \/ CancelCommit(j)
    \/ RetryBegin(j)
    \/ RetryCommit(j)

Outcomes == {"error", "timeout"}

\* Store and queue available, no external cancel or retry.
NextCore ==
  \/ Submits(0..MaxRetries)
  \/ Polls
  \/ Sweeps
  \/ Claims
  \/ Successes
  \/ Failures(Outcomes)
  \/ Tick

SpecCore == Init /\ [][NextCore]_vars

\* Store and queue available, with external cancel and retry.
Next == NextCore \/ Requests

Spec == Init /\ [][Next]_vars

\* As Spec, for a job of max_retries = MaxRetries whose handler raises on
\* every attempt, and a client that may retry once more than in Spec.
NextFailing ==
  \/ Submits({MaxRetries})
  \/ Polls
  \/ Sweeps
  \/ Claims
  \/ Failures({"error"})
  \/ Requests
  \/ Tick

SpecFailing == InitWith(MaxRetryCalls + 1) /\ [][NextFailing]_vars

\* store failures under the executors
Raises == \E d \in Dispatchers : \E t \in ActiveTasks(d) : Raise(d, t)

\* As SpecCore, with a store that may fail under an executor.
NextFaults == NextCore \/ Raises

SpecFaults == Init /\ [][NextFaults]_vars

\* The scheduling SpecCore runs under: the event loop runs every ready task,
\* the loops never stop, every store and queue operation returns, every
\* handler returns, raises or times out, every request commits, time passes.
TaskRecords == [job : JobIds, pc : {"claim", "claimed", "run"}, attempt : 0..(MaxRetries + 1)]

Fairness ==
  /\ WF_vars(Tick)
  /\ \A j \in JobIds : WF_vars(SubmitCommit(j))
  /\ \A d \in Dispatchers :
       /\ WF_vars(Dequeue(d))
       /\ WF_vars(Launch(d))
       /\ WF_vars(SweepScan(d))
       /\ WF_vars(\E j \in JobIds : SweepEnqueue(d, j))
       /\ \A t \in TaskRecords :
            /\ WF_vars(ClaimSelect(d, t))
            /\ WF_vars(ClaimCommit(d, t))
            /\ WF_vars(Complete(d, t) \/ \E e \in Outcomes : Fail(d, t, e))

SpecCoreFair == SpecCore /\ Fairness

\* priorities a client submits with: JobCreate.priority is 0..20, NORMAL the
\* default
Priorities == {0, NORMAL, 10}

\* a client submitting the jobs J with priority, max_retries and scheduled_at
\* drawn from P, R and S
SubmitsWith(J, P, R, S) ==
  \E j \in J :
    \/ \E prio \in P : \E maxr \in R : \E sched \in S :
         SubmitFlush(j, "email", prio, maxr, sched)
    \/ SubmitCommit(j)

\* As SpecCore, for jobs of any priority that may carry a scheduled_at two
\* ticks ahead.
NextScheduled ==
  \/ SubmitsWith(1..SpecJobs, Priorities, {MaxRetries}, {NULL, 2})
  \/ Polls
  \/ Sweeps
  \/ Claims
  \/ Successes
  \/ Failures(Outcomes)
  \/ Tick

SpecScheduled == Init /\ [][NextScheduled]_vars

\* The state after clients have submitted every job, each with a priority of
\* its own and max_retries = 0, and no dispatcher has polled yet.
InitQueue ==
  \E p \in [JobIds -> Priorities] :
    /\ rowState = [j \in JobIds |-> "committed"]
    /\ jobs = [j \in JobIds |-> NewJob("email", p[j], 0, NULL, j - 1)]
    /\ rowLock = [j \in JobIds |-> "free"]
    /\ queue = {<<j, 0 - p[j]>> : j \in JobIds}
    /\ processing = {}
    /\ stats = [enqueued |-> NumJobs, completed |-> 0, failed |-> 0, retries |-> 0]
    /\ pollJob = [d \in Dispatchers |-> NoJob]
    /\ semaphore = [d \in Dispatchers |-> MAX_WORKERS]
    /\ tasks = [d \in Dispatchers |-> EmptyBag]
    /\ retry_ids = [d \in Dispatchers |-> {}]
    /\ retryBudget = 0
    /\ redisUp = TRUE
    /\ loops = [d \in Dispatchers |-> "polling"]

\* The dispatchers working off a filled queue.  With max_retries = 0 no job
\* is ever RETRYING, so the sweeps find nothing and no instant lies ahead.
NextQueue ==
  \/ Polls
  \/ Claims
  \/ Successes
  \/ Failures(Outcomes)

SpecQueue == InitQueue /\ [][NextQueue]_vars

\* As SpecQueue with one dispatcher process only.
NextQuiescent ==
  \/ Dequeue(1)
  \/ Launch(1)
  \/ Claims
  \/ Successes
  \/ Failures(Outcomes)

SpecQuiescent == InitQueue /\ [][NextQuiescent]_vars

\* As Spec, for jobs of any priority with max_retries 0 or MaxRetries.
NextRequests ==
  \/ SubmitsWith(1..SpecJobs, Priorities \ {NORMAL}, {0, MaxRetries}, {NULL})
  \/ Polls
  \/ Sweeps
  \/ Claims
  \/ Successes
  \/ Failures({"error"})
  \/ Requests
  \/ Tick

SpecRequests == Init /\ [][NextRequests]_vars

\* As SpecCore, for a job that has max_retries = BackoffAttempts + 1, so that
\* each of its first BackoffAttempts attempts may end in RETRYING.
NextBackoff ==
  \/ SubmitsWith(1..SpecJobs, {NORMAL}, {BackoffAttempts + 1}, {NULL})
  \/ Polls
  \/ Sweeps
  \/ Claims
  \/ Successes
  \/ Failures({"error"})
  \/ Tick

SpecBackoff == Init /\ [][NextBackoff]_vars

\* JobCreate.priority: 0 to 20
AllPriorities == 0..20

\* RedisQueue on its own: a queue holding one id and a processing set holding
\* every id, as dispatchers and clients left them.
InitRedis ==
  \E id \in JobIds : \E p \in AllPriorities :
    /\ rowState = [j \in JobIds |-> "committed"]
    /\ jobs = [j \in JobIds |-> NewJob("email", NORMAL, 0, NULL, j - 1)]
    /\ rowLock = [j \in JobIds |-> "free"]
    /\ queue = {<<id, 0 - p>>}
    /\ processing = JobIds
    /\ stats = [enqueued |-> 0, completed |-> 0, failed |-> 0, retries |-> 0]
    /\ pollJob = [d \in Dispatchers |-> NoJob]
    /\ semaphore = [d \in Dispatchers |-> MAX_WORKERS]
    /\ tasks = [d \in Dispatchers |-> EmptyBag]
    /\ retry_ids = [d \in Dispatchers |-> {}]
    /\ retryBudget = 0
    /\ redisUp = TRUE
    /\ loops = [d \in Dispatchers |-> "polling"]

\* RedisQueue.enqueue(job_id, priority)
QueueEnqueue(id, p) ==
  /\ queue' = enqueue(queue, id, p)
  /\ UNCHANGED << storeVars, processing, stats, managerVars, retryBudget, envVars >>

\* RedisQueue.dequeue()
QueueDequeue ==
  /\ \E e \in PopMin(queue) :
       /\ queue' = queue \ {e}
       /\ processing' = processing \cup {e[1]}
  /\ UNCHANGED << storeVars, stats, managerVars, retryBudget, envVars >>

\* RedisQueue.mark_done(job_id)
QueueMarkDone(id) ==
  /\ processing' = mark_done(processing, id)
  /\ UNCHANGED << storeVars, queue, stats, managerVars, retryBudget, envVars >>

NextRedis ==
  \/ \E id \in JobIds : \E p \in AllPriorities : QueueEnqueue(id, p)
  \/ QueueDequeue
  \/ \E id \in JobIds : QueueMarkDone(id)

SpecRedis == InitRedis /\ [][NextRedis]_vars

\* a job type a deployment accepts without a handler registered for it
Unregistered == "unregistered"

\* executors finding no handler
NoHandlers == \E d \in Dispatchers : \E t \in ActiveTasks(d) : NoHandler(d, t)

\* As SpecCore, for a job whose type may be one HANDLER_MAP has no entry for.
NextUnregistered ==
  \/ \E j \in 1..SpecJobs :
       \/ \E type \in {"email", Unregistered} : \E maxr \in {0, MaxRetries} :
            SubmitFlush(j, type, NORMAL, maxr, NULL)
       \/ SubmitCommit(j)
  \/ Polls
  \/ Sweeps
  \/ Claims
  \/ Successes
  \/ Failures(Outcomes)
  \/ NoHandlers
  \/ Tick

SpecUnregistered == Init /\ [][NextUnregistered]_vars

\* ------------------------------------------------------------- stop()
\* while self._running, and the loop's task not cancelled
Running(d) == loops[d] = "polling"

\* the poll loops of the dispatchers that run
PollsWhileRunning == \E d \in Dispatchers : Running(d) /\ (Dequeue(d) \/ Launch(d))

\* the retry loops of the dispatchers that run
SweepsWhileRunning ==
  \E d \in Dispatchers :
    Running(d) /\ (SweepScan(d) \/ \E j \in JobIds : SweepEnqueue(d, j))

\* stop() up to its await: _running is cleared and both loops are cancelled
\* where they are suspended.  The poll loop drops the id it holds while
\* waiting for a permit, the retry loop the rest of its scan; a zpopmin the
\* poll loop had sent may still have taken the head of the queue.  With no
\* executor active stop() returns without suspending.
StopBegin(d) ==
  /\ loops[d] \in {"polling", "backoff"}
  /\ loops' = [loops EXCEPT ![d] =
                 IF tasks[d] = EmptyBag THEN "stopped" ELSE "stopping"]
  /\ pollJob' = [pollJob EXCEPT ![d] = NoJob]
  /\ retry_ids' = [retry_ids EXCEPT ![d] = {}]
  /\ \/ queue' = queue
     \/ /\ redisUp /\ Running(d) /\ pollJob[d] = NoJob
        /\ \E e \in PopMin(queue) : queue' = queue \ {e}
  /\ UNCHANGED << storeVars, processing, stats, semaphore, tasks, retryBudget, redisUp >>

\* (mutant) stop() returning without its gather
StopReturnAtOnce(d) ==
  /\ loops[d] = "stopping"
  /\ loops' = [loops EXCEPT ![d] = "stopped"]
  /\ UNCHANGED << storeVars, redisVars, managerVars, retryBudget, redisUp >>

\* stop() returns: asyncio.gather(*_active_tasks) is done, every task has
\* finished and _task_done has run for it
StopReturn(d) ==
  /\ loops[d] = "stopping"
  /\ tasks[d] = EmptyBag
  /\ loops' = [loops EXCEPT ![d] = "stopped"]
  /\ UNCHANGED << storeVars, redisVars, managerVars, retryBudget, redisUp >>

Stops == \E d \in Dispatchers : StopBegin(d) \/ StopReturn(d)

\* As SpecCore, with dispatchers that may be stopped.
NextStop ==
  \/ Submits(0..MaxRetries)
  \/ PollsWhileRunning
  \/ SweepsWhileRunning
  \/ Claims
  \/ Successes
  \/ Failures(Outcomes)
  \/ Stops
  \/ Tick

SpecStop == Init /\ [][NextStop]_vars

\* ------------------------------------------------- the queue backend fails
\* the Redis server becomes unreachable: every queue operation raises
RedisDown ==
  /\ redisUp
  /\ redisUp' = FALSE
  /\ UNCHANGED << storeVars, redisVars, managerVars, retryBudget, loops >>

\* the Redis server is reachable again
RedisRestore ==
  /\ ~redisUp
  /\ redisUp' = TRUE
  /\ UNCHANGED << storeVars, redisVars, managerVars, retryBudget, loops >>

\* One iteration of _poll_loop with the queue unreachable: get_redis returns
\* the client, queue.dequeue() raises out of _dequeue_job before its store
\* query, and _poll_loop logs the error and sleeps.
DequeueRaises(d) ==
  /\ Running(d)
  /\ ~redisUp
  /\ pollJob[d] = NoJob
  /\ loops' = [loops EXCEPT ![d] = "backoff"]
  /\ UNCHANGED << storeVars, redisVars, managerVars, retryBudget, redisUp >>

\* _poll_loop's sleep(2) after an error is over
PollResume(d) ==
  /\ loops[d] = "backoff"
  /\ loops' = [loops EXCEPT ![d] = "polling"]
  /\ UNCHANGED << storeVars, redisVars, managerVars, retryBudget, redisUp >>

\* mark_done and increment_stat after an outcome's commit: with the queue
\* unreachable mark_done raises and neither takes effect
Bookkeeping(id, name) ==
  IF redisUp
    THEN /\ processing' = mark_done(processing, id)
         /\ stats' = increment_stat(stats, name)
    ELSE UNCHANGED << processing, stats >>

\* _handle_failure, with a queue that may be unreachable: the row is
\* committed, then the bookkeeping runs or raises out of execute
FailureWrite(d, t, e) ==
  /\ jobs' = [jobs EXCEPT ![t.job] =
               IF ShouldRetry(t, @.max_retries)
                 THEN RetryingRow(@, t, e) ELSE FailedRow(@, e)]
  /\ Bookkeeping(t.job, IF ShouldRetry(t, jobs[t.job].max_retries)
                          THEN "retries" ELSE "failed")
  /\ TaskDone(d, t)
  /\ UNCHANGED << rowState, rowLock, queue, pollJob, retry_ids, retryBudget, envVars >>

\* execute: the handler returned; _complete_job up to its commit
CompleteCommit(d, t) ==
  /\ BagIn(t, tasks[d])
  /\ t.pc = "run"
  /\ jobs[t.job].job_type \in HANDLER_MAP
  /\ rowLock[t.job] = "free"
  /\ jobs' = [jobs EXCEPT ![t.job] = CompletedRow(@)]
  /\ TaskStep(d, t, [t EXCEPT !.pc = "completed"])
  /\ UNCHANGED << rowState, rowLock, redisVars, pollJob, retry_ids, retryBudget, envVars >>

\* _complete_job after its commit: mark_done and increment_stat.  They run
\* inside the try of execute, so when they raise, except Exception hands the
\* job to _handle_failure.
CompleteBookkeeping(d, t) ==
  /\ BagIn(t, tasks[d])
  /\ t.pc = "completed"
  /\ rowLock[t.job] = "free"
  /\ IF redisUp
       THEN /\ processing' = mark_done(processing, t.job)
            /\ stats' = increment_stat(stats, "completed")
            /\ TaskDone(d, t)
            /\ UNCHANGED << storeVars, queue, pollJob, retry_ids, retryBudget, envVars >>
       ELSE FailureWrite(d, t, "queue")

\* execute: the handler raised or timed out, the queue may be unreachable
FailOutage(d, t, e) ==
  /\ BagIn(t, tasks[d])
  /\ t.pc = "run"
  /\ jobs[t.job].job_type \in HANDLER_MAP
  /\ rowLock[t.job] = "free"
  /\ FailureWrite(d, t, e)

\* the poll loop of dispatcher d with a queue that may be unreachable
PollsOutage(d) ==
  \/ redisUp /\ Running(d) /\ Dequeue(d)
  \/ Running(d) /\ Launch(d)
  \/ DequeueRaises(d)
  \/ PollResume(d)

\* the executors' outcomes with a queue that may be unreachable
OutcomesOutage ==
  \E d \in Dispatchers : \E t \in ActiveTasks(d) :
    \/ CompleteCommit(d, t)
    \/ CompleteBookkeeping(d, t)
    \/ \E e \in Outcomes : FailOutage(d, t, e)

\* As SpecQuiescent, with a queue backend that may fail and recover.
NextOutage ==
  \/ PollsOutage(1)
  \/ Claims
  \/ OutcomesOutage
  \/ RedisDown
  \/ RedisRestore

SpecOutage == InitQueue /\ [][NextOutage]_vars

\* ------------------------------------------- store-only mode (USE_REDIS false)
\* get_redis() returns None: no operation touches the queue, the processing
\* set or the counters, and _dequeue_job always reads the store.

\* create_job up to its return, the queue disabled
SubmitFlushStore(j, type, prio, maxr, sched) ==
  /\ rowState[j] = "none"
  /\ \A i \in JobIds : i < j => rowState[i] # "none"
  /\ rowState' = [rowState EXCEPT ![j] = "flushed"]
  /\ jobs' = [jobs EXCEPT ![j] =
               NewJob(type, prio, maxr, sched,
                      Cardinality({i \in JobIds : rowState[i] # "none"}))]
  /\ UNCHANGED << rowLock, redisVars, managerVars, retryBudget, envVars >>

\* execute: the handler returned and _complete_job committed, the queue disabled
CompleteStore(d, t) ==
  /\ BagIn(t, tasks[d])
  /\ t.pc = "run"
  /\ jobs[t.job].job_type \in HANDLER_MAP
  /\ rowLock[t.job] = "free"
  /\ jobs' = [jobs EXCEPT ![t.job] = CompletedRow(@)]
  /\ TaskDone(d, t)
  /\ UNCHANGED << rowState, rowLock, redisVars, pollJob, retry_ids, retryBudget, envVars >>

\* execute: the handler raised or timed out and _handle_failure committed,
\* the queue disabled
FailStore(d, t, e) ==
  /\ BagIn(t, tasks[d])
  /\ t.pc = "run"
  /\ jobs[t.job].job_type \in HANDLER_MAP
  /\ rowLock[t.job] = "free"
  /\ jobs' = [jobs EXCEPT ![t.job] =
               IF ShouldRetry(t, @.max_retries)
                 THEN RetryingRow(@, t, e) ELSE FailedRow(@, e)]
  /\ TaskDone(d, t)
  /\ UNCHANGED << rowState, rowLock, redisVars, pollJob, retry_ids, retryBudget, envVars >>

\* the row the sweep writes when the queue is disabled
RequeuedRow(row) == [row EXCEPT !.status = QUEUED, !.next_retry_at = NULL]

\* _retry_loop, the queue disabled: the next iteration's scan starts after
\* the commit of the one before
SweepScanStore(d) ==
  /\ \A j \in JobIds : rowLock[j] # "sweep"
  /\ SweepScan(d)

\* _retry_loop, the queue disabled: SELECT ... WHERE id = jid FOR UPDATE SKIP
\* LOCKED for one id of the scan.  A row another transaction holds is
\* skipped; otherwise the row is locked, whatever its status, and changed in
\* the session.
SweepLockRow(d, j) ==
  /\ j \in retry_ids[d]
  /\ retry_ids' = [retry_ids EXCEPT ![d] = @ \ {j}]
  /\ rowLock' = IF rowLock[j] = "free"
                  THEN [rowLock EXCEPT ![j] = "sweep"] ELSE rowLock
  /\ UNCHANGED << rowState, jobs, redisVars, pollJob, semaphore, tasks, retryBudget, envVars >>

\* _retry_loop, the queue disabled: db.commit() after the loop over the scan
SweepCommit(d) ==
  /\ retry_ids[d] = {}
  /\ \E j \in JobIds : rowLock[j] = "sweep"
  /\ jobs' = [j \in JobIds |->
               IF rowLock[j] = "sweep" THEN RequeuedRow(jobs[j]) ELSE jobs[j]]
  /\ rowLock' = [j \in JobIds |->
                  IF rowLock[j] = "sweep" THEN "free" ELSE rowLock[j]]
  /\ UNCHANGED << rowState, redisVars, managerVars, retryBudget, envVars >>

\* the retry loop of dispatcher d, the queue disabled
SweepsStore(d) ==
  \/ SweepScanStore(d)
  \/ \E j \in JobIds : SweepLockRow(d, j)
  \/ SweepCommit(d)

\* handlers returning, raising or timing out, the queue disabled
OutcomesStore ==
  \E d \in Dispatchers : \E t \in ActiveTasks(d) :
    \/ CompleteStore(d, t)
    \/ \E e \in Outcomes : FailStore(d, t, e)

\* a client cancelling jobs
Cancels == \E j \in JobIds : CancelBegin(j) \/ CancelCommit(j)

\* Store-only mode: every dispatcher polls the store, dispatcher 1 runs the
\* retry loop, a client submits and cancels.
NextStoreOnly ==
  \/ \E j \in 1..SpecJobs :
       \/ \E maxr \in {0, MaxRetries} : SubmitFlushStore(j, "email", NORMAL, maxr, NULL)
       \/ SubmitCommit(j)
  \/ Polls
  \/ SweepsStore(1)
  \/ Claims
  \/ OutcomesStore
  \/ Cancels
  \/ Tick

SpecStoreOnly == Init /\ [][NextStoreOnly]_vars

\* ---------------------------------------------------------------- claims
\* the executors of job j that are at one of the points pcs of execute
TasksAt(d, j, pcs) ==
  LET S == {t \in ActiveTasks(d) : t.job = j /\ t.pc \in pcs}
  IN  BagCardinality([t \in S |-> tasks[d][t]])

RECURSIVE SumTo(_, _, _)
SumTo(n, j, pcs) ==
  IF n = 0 THEN 0 ELSE TasksAt(n, j, pcs) + SumTo(n - 1, j, pcs)

Selecting(j) == SumTo(NumDispatchers, j, {"claim"})
Claiming(j) == SumTo(NumDispatchers, j, {"claimed"})
Holding(j) == SumTo(NumDispatchers, j, {"run"})

Submitted == {j \in JobIds : rowState[j] # "none"}

\* C1: of the executors that run the claim protocol on a job, at most one is
\* past the SELECT at a time; it found the row claimable, and its commit sets
\* RUNNING, started_at, worker_id and attempt + 1 and nothing else; an
\* executor whose SELECT finds no row returns and the row is as it was.
C1_ClaimStep(j) ==
  LET sel == Selecting(j)
      clm == Claiming(j)
      clmNext == Claiming(j)'
  IN  /\ clmNext <= 1
      /\ clmNext > clm =>
           /\ jobs[j].status \in Claimable
           /\ jobs'[j] = jobs[j]
      /\ Selecting(j)' < sel => jobs'[j] = jobs[j]
      /\ clmNext < clm /\ Holding(j)' > Holding(j) =>
           /\ jobs[j].status \in Claimable
           /\ jobs'[j].worker_id \in Dispatchers
           /\ jobs'[j] = [jobs[j] EXCEPT !.status = RUNNING, !.started_at = TRUE,
                                         !.attempt = jobs[j].attempt + 1,
                                         !.worker_id = jobs'[j].worker_id]

C1_ClaimAtomic == [][tasks' # tasks => \A j \in Submitted : C1_ClaimStep(j)]_vars

\* an executor of one dispatcher has won the claim (RUNNING, first attempt)
\* while an executor of the other is still before its SELECT
C1_Witness ==
  \E j \in JobIds : \E d1, d2 \in Dispatchers :
    /\ d1 # d2
    /\ TasksAt(d1, j, {"run"}) = 1
    /\ TasksAt(d2, j, {"claim"}) >= 1
    /\ jobs[j].status = RUNNING /\ jobs[j].attempt = 1 /\ jobs[j].worker_id = d1

\* C2: for every job at most one executor is between its successful claim and
\* the write of its outcome.
C2_OneRunner == \A j \in JobIds : Holding(j) <= 1

\* C3: every job has 0 <= attempt <= max_retries + 1.
C3_AttemptBound ==
  \A j \in JobIds :
    rowState[j] # "none" =>
      0 <= jobs[j].attempt /\ jobs[j].attempt <= jobs[j].max_retries + 1

\* C4: with no external cancel or retry, a job that ends FAILED (each of its
\* handler runs failed) was executed max_retries + 1 times, entered RETRYING
\* max_retries times, and failed once.
C4_NPlusOneAttempts ==
  \A j \in JobIds :
    rowState[j] # "none" /\ jobs[j].status = FAILED =>
      /\ jobs[j].attempt = jobs[j].max_retries + 1
      /\ stats.retries = jobs[j].max_retries
      /\ stats.failed = 1

\* C5: with no external cancel or retry, a job that is COMPLETED or FAILED
\* keeps that status, and its attempt, result and error_message, for ever.
C5_TerminalKept ==
  [][\A j \in JobIds :
       jobs[j].status \in {COMPLETED, FAILED} =>
         /\ jobs'[j].status = jobs[j].status
         /\ jobs'[j].attempt = jobs[j].attempt
         /\ jobs'[j].result = jobs[j].result
         /\ jobs'[j].error_message = jobs[j].error_message]_vars

\* the job is COMPLETED or FAILED while an executor dispatched for it a second
\* time is still to run its claim
C5_Witness ==
  \E j \in JobIds :
    /\ jobs[j].status \in {COMPLETED, FAILED}
    /\ Selecting(j) >= 1

\* C6: a job in COMPLETED, FAILED or CANCELLED changes status only by the
\* commit of retry_job, to QUEUED.
C6_TerminalOnlyRetried ==
  [][\A j \in JobIds :
       jobs[j].status \in Terminal /\ jobs'[j].status # jobs[j].status =>
         jobs'[j].status = QUEUED /\ rowLock[j] = "retry"]_vars

\* C7: a dispatcher never has more than MAX_WORKERS executor tasks, and its
\* free permits are exactly those no live task holds.
C7_PoolBound ==
  \A d \in Dispatchers :
    /\ BagCardinality(tasks[d]) <= MAX_WORKERS
    /\ semaphore[d] >= 0
    /\ semaphore[d] + BagCardinality(tasks[d]) = MAX_WORKERS

\* the pool of a dispatcher is full and its poll loop waits for a permit
C7_Witness ==
  \E d \in Dispatchers :
    /\ BagCardinality(tasks[d]) = MAX_WORKERS
    /\ semaphore[d] = 0
    /\ pollJob[d] # NoJob

\* C8: a job with a result is COMPLETED.
C8_ResultMeansCompleted ==
  \A j \in JobIds : jobs[j].result => jobs[j].status = COMPLETED

\* C9: under fair scheduling and with no external cancel, every submitted job
\* eventually is COMPLETED or FAILED.
C9_EventuallyTerminal ==
  \A j \in JobIds :
    (rowState[j] # "none") ~> (jobs[j].status \in {COMPLETED, FAILED})

\* a job reached its terminal status on a second attempt, after a retry
C9_Witness ==
  \E j \in JobIds :
    jobs[j].status \in {COMPLETED, FAILED} /\ jobs[j].attempt = 2

\* C10: a RETRYING job is moved to RUNNING only once next_retry_at has passed.
C10_NoEarlyRetry ==
  [][\A j \in JobIds :
       jobs[j].status = RETRYING /\ jobs'[j].status = RUNNING =>
         jobs[j].next_retry_at <= 0]_vars

\* C11: a job is moved to RUNNING only once its scheduled_at (null, or an
\* instant) has passed.
C11_NotBeforeScheduled ==
  [][\A j \in JobIds :
       jobs[j].status \in Claimable /\ jobs'[j].status = RUNNING =>
         jobs[j].scheduled_at <= 0]_vars

\* the executor tasks and the poll loop of dispatcher d that hold id j, handed
\* over by _dequeue_job and not yet at the claim's SELECT
Held(d, j) == TasksAt(d, j, {"claim"}) + (IF pollJob[d] = j THEN 1 ELSE 0)

RECURSIVE HeldTo(_, _)
HeldTo(n, j) == IF n = 0 THEN 0 ELSE Held(n, j) + HeldTo(n - 1, j)

HeldByAll(j) == HeldTo(NumDispatchers, j)

\* C12: a dequeue takes exactly one entry out of the queue, one of the
\* highest priority (lowest score) in it, puts its id into the processing set
\* and returns that id; on an empty queue it returns nothing and the queue
\* stays empty.
C12_DequeueMax ==
  [][(queue' # queue =>
        \E e \in queue :
           /\ queue' = queue \ {e}
           /\ \A f \in queue : 0 - e[2] >= 0 - f[2]
           /\ \A f \in queue : jobs[e[1]].priority >= jobs[f[1]].priority
           /\ e[1] \in processing'
           /\ HeldByAll(e[1])' = HeldByAll(e[1]) + 1)
     /\ (queue = {} => queue' = {} /\ processing' \subseteq processing)]_vars

\* a dequeue took the higher of two priorities and left the lower one queued
C12_Witness ==
  \E a, b \in JobIds :
    /\ jobs[a].priority > jobs[b].priority
    /\ HeldByAll(a) = 1 /\ a \in processing
    /\ queue = {<<b, 0 - jobs[b].priority>>}

\* C13: with one dispatcher and jobs A (priority 10) and B (priority 5) both
\* in the queue before the first dequeue, B is claimed only after A.
C13_PriorityClaimOrder ==
  \A a, b \in JobIds :
    jobs[a].priority = 10 /\ jobs[b].priority = 5 /\ jobs[b].worker_id # NoJob =>
      jobs[a].worker_id # NoJob

\* C14: an id that a dequeuer receives from the queue has left the queue in
\* the same step, and it is one dequeuer that receives it, once.
C14_AtomicPop ==
  [][\A j \in JobIds :
       queue # {} /\ HeldByAll(j)' > HeldByAll(j) =>
          /\ \E e \in queue : e[1] = j
          /\ \A e \in queue' : e[1] # j
          /\ HeldByAll(j)' = HeldByAll(j) + 1
          /\ \E d \in Dispatchers :
               /\ Held(d, j)' = Held(d, j) + 1
               /\ \A c \in Dispatchers \ {d} : Held(c, j)' = Held(c, j)]_vars

\* both dispatchers have dequeued, each holds another id, the queue is empty
C14_Witness ==
  \E d1, d2 \in Dispatchers : \E a, b \in JobIds :
    /\ d1 # d2 /\ a # b
    /\ Held(d1, a) = 1 /\ Held(d2, b) = 1
    /\ Held(d1, b) = 0 /\ Held(d2, a) = 0
    /\ queue = {}
    /\ processing = {a, b}

\* C15: no step lowers a job's attempt.
C15_AttemptMonotone ==
  [][\A j \in JobIds : jobs'[j].attempt >= jobs[j].attempt]_vars

\* C15 as amended: a job's attempt is lowered only by the commit of retry_job,
\* which sets it to 0 and the status to QUEUED.
C15_AttemptLoweredByRetryOnly ==
  [][\A j \in JobIds :
       jobs'[j].attempt < jobs[j].attempt =>
         /\ rowLock[j] = "retry"
         /\ jobs'[j].attempt = 0
         /\ jobs'[j].status = QUEUED]_vars

\* retry_job has reset a job that had been claimed: its attempt is 0 again
\* while worker_id still names the executor that claimed it
C15_Witness ==
  \E j \in JobIds :
    /\ retryBudget < MaxRetryCalls
    /\ jobs[j].status = QUEUED
    /\ jobs[j].attempt = 0
    /\ jobs[j].worker_id # NoJob
    /\ rowLock[j] = "free"

\* C16: cancel_job goes ahead only on a job that is neither COMPLETED nor
\* CANCELLED; it takes the id out of the queue, and its commit sets status
\* CANCELLED and completed_at and no other field; a COMPLETED job is never
\* made CANCELLED.
C16_CancelContract ==
  [][\A j \in JobIds :
       /\ (rowLock[j] # "cancel" /\ rowLock'[j] = "cancel" =>
             /\ jobs[j].status \notin {COMPLETED, CANCELLED}
             /\ queue' = {e \in queue : e[1] # j}
             /\ jobs' = jobs)
       /\ (rowLock[j] = "cancel" /\ rowLock'[j] # "cancel" =>
             /\ jobs'[j] = [jobs[j] EXCEPT !.status = CANCELLED,
                                           !.completed_at = TRUE]
             /\ queue' = queue)
       /\ (jobs[j].status = COMPLETED => jobs'[j].status # CANCELLED)]_vars

\* a job cancelled while RETRYING: CANCELLED, completed_at set, its attempt
\* and next_retry_at as they were, its id not in the queue
C16_Witness ==
  \E j \in JobIds :
    /\ jobs[j].status = CANCELLED
    /\ jobs[j].completed_at
    /\ jobs[j].attempt = 1
    /\ jobs[j].next_retry_at # NULL
    /\ jobs[j].error_message = AttemptError(1, "error")
    /\ \A e \in queue : e[1] # j
    /\ rowLock[j] = "free"

\* C17: retry_job goes ahead only on a FAILED or CANCELLED job; it enqueues the
\* id at the job's priority, and its commit sets status QUEUED and attempt 0
\* and clears error_message, result, started_at, completed_at,
\* duration_seconds and next_retry_at, and changes nothing else.
C17_RetryContract ==
  [][\A j \in JobIds :
       /\ (rowLock[j] # "retry" /\ rowLock'[j] = "retry" =>
             /\ jobs[j].status \in {FAILED, CANCELLED}
             /\ <<j, 0 - jobs[j].priority>> \in queue'
             /\ \A e \in queue' : e[1] = j => e[2] = 0 - jobs[j].priority
             /\ jobs' = jobs)
       /\ (rowLock[j] = "retry" /\ rowLock'[j] # "retry" =>
             jobs'[j] = [jobs[j] EXCEPT !.status = QUEUED, !.attempt = 0,
                                        !.error_message = NoError,
                                        !.result = FALSE,
                                        !.started_at = FALSE,
                                        !.completed_at = FALSE,
                                        !.duration_seconds = FALSE,
                                        !.next_retry_at = NULL])]_vars

\* a job of priority 10 that failed on its first attempt and was retried:
\* QUEUED, attempt 0, cleared, in the queue with score -10
C17_Witness ==
  \E j \in JobIds :
    /\ retryBudget < MaxRetryCalls
    /\ jobs[j].priority = 10
    /\ jobs[j].worker_id # NoJob
    /\ jobs[j].status = QUEUED
    /\ jobs[j].attempt = 0
    /\ jobs[j].error_message = NoError
    /\ ~jobs[j].completed_at
    /\ <<j, 0 - 10>> \in queue
    /\ rowLock[j] = "free"

\* C18: a job that was cancelled before any executor claimed it (worker_id
\* was never set) and is not being retried is not in the queue, has attempt 0
\* and no executor past the claim's SELECT, and it leaves CANCELLED only by
\* the commit of retry_job.
C18_CancelledUnclaimed ==
  /\ [](\A j \in JobIds :
          /\ rowState[j] # "none"
          /\ jobs[j].status = CANCELLED
          /\ jobs[j].worker_id = NoJob
          /\ rowLock[j] # "retry"
          => /\ \A e \in queue : e[1] # j
             /\ jobs[j].attempt = 0
             /\ Claiming(j) = 0
             /\ Holding(j) = 0)
  /\ [][\A j \in JobIds :
          /\ jobs[j].status = CANCELLED
          /\ jobs[j].worker_id = NoJob
          /\ jobs'[j].status # CANCELLED
          => /\ rowLock[j] = "retry"
             /\ jobs'[j].status = QUEUED]_vars

\* the job was cancelled unclaimed while an executor dispatched for it has
\* still to run its claim
C18_Witness ==
  \E j \in JobIds :
    /\ jobs[j].status = CANCELLED
    /\ jobs[j].worker_id = NoJob
    /\ rowLock[j] = "free"
    /\ Selecting(j) >= 1

\* C19: a CANCELLED job is not moved to RETRYING and not claimed.
C19_CancelledNoRetry ==
  [][\A j \in JobIds :
       jobs[j].status = CANCELLED =>
         jobs'[j].status \notin {RETRYING, RUNNING}]_vars

\* C20: the sweep puts an id back into the queue with the priority of its row
\* and leaves the row as it is.
C20_SweepKeepsPriority ==
  [][\A d \in Dispatchers : \A j \in JobIds :
       j \in retry_ids[d] /\ j \notin retry_ids'[d] =>
         /\ <<j, 0 - jobs[j].priority>> \in queue'
         /\ jobs'[j] = jobs[j]]_vars

\* a dispatcher with no executor task active and no dequeued id awaiting launch
Quiescent(d) == tasks[d] = EmptyBag /\ pollJob[d] = NoJob

\* C30: whenever the dispatchers are quiescent the processing set holds no id:
\* every id dequeue added to it has been removed, also when its claim failed.
C30_ProcessingDrained ==
  (\A d \in Dispatchers : Quiescent(d)) => processing = {}

\* C30, the lasting case: the job is COMPLETED, the queue is empty and the
\* dispatchers are quiescent, so nothing will touch the processing set again.
C30_DrainedAtRest ==
  (/\ \A d \in Dispatchers : Quiescent(d)
   /\ queue = {}
   /\ \A j \in Submitted : rowState[j] = "committed" /\ jobs[j].status = COMPLETED)
    => processing = {}

FailureOutcome(row, e) ==
  IF row.attempt < row.max_retries
    THEN [row EXCEPT !.status = RETRYING,
                     !.next_retry_at = Pow(RETRY_BACKOFF_BASE, row.attempt),
                     !.error_message = AttemptError(row.attempt, e)]
    ELSE [row EXCEPT !.status = FAILED, !.error_message = PlainError(e),
                     !.completed_at = TRUE, !.duration_seconds = TRUE]

\* C23: every executor that leaves its handler writes an outcome (nothing
\* propagates out of it), and a timeout is written as a raised error is, by
\* the retry policy and with the timeout as its message: RETRYING while
\* attempt < max_retries, FAILED otherwise, so FAILED after one attempt when
\* max_retries = 0.
C23_TimeoutAsFailure ==
  [][\A j \in JobIds :
       Holding(j)' < Holding(j) =>
         /\ jobs'[j].status \in {COMPLETED, RETRYING, FAILED}
         /\ jobs'[j].status # COMPLETED =>
              \E e \in Outcomes :
                /\ jobs'[j] = FailureOutcome(jobs[j], e)
                /\ jobs'[j].error_message.error = e
         /\ (jobs'[j].status # COMPLETED /\ jobs[j].max_retries = 0) =>
              (jobs'[j].status = FAILED /\ jobs'[j].attempt = 1)]_vars

\* a job of max_retries = 0 is FAILED after one attempt that timed out
C23_Witness ==
  \E j \in JobIds :
    /\ jobs[j].max_retries = 0
    /\ jobs[j].status = FAILED /\ jobs[j].attempt = 1
    /\ jobs[j].error_message = PlainError("timeout")
    /\ jobs[j].completed_at /\ jobs[j].duration_seconds
    /\ stats.failed = 1 /\ stats.retries = 0

\* a job with retries left is RETRYING after an attempt that timed out
C23_WitnessRetrying ==
  \E j \in JobIds :
    /\ jobs[j].max_retries = MaxRetries
    /\ jobs[j].status = RETRYING
    /\ jobs[j].error_message = AttemptError(jobs[j].attempt, "timeout")

\* C25: every job that is COMPLETED, FAILED or CANCELLED has completed_at
\* set, and every job that is RUNNING has started_at and worker_id set.
C25_Timestamps ==
  \A j \in Submitted :
    /\ jobs[j].status \in Terminal => jobs[j].completed_at
    /\ jobs[j].status = RUNNING =>
         (jobs[j].started_at /\ jobs[j].worker_id \in Dispatchers)

\* a job was cancelled and retried and is RUNNING again, its executor racing
\* with a second cancel_job that holds the row lock
C25_Witness ==
  \E j \in JobIds :
    /\ retryBudget < MaxRetryCalls
    /\ jobs[j].status = RUNNING
    /\ jobs[j].started_at /\ ~jobs[j].completed_at
    /\ Holding(j) >= 1
    /\ rowLock[j] = "cancel"

\* the backoffs of attempts 1, 2, 3, 4, 5 with base 2, in seconds
Backoffs == << 2, 4, 8, 16, 32 >>

\* C24: every write of RETRYING by an executor sets next_retry_at to
\* base^attempt after the instant of the write, attempt being the counter as
\* the claim incremented it: 2, 4, 8, 16, 32 for attempts 1 to 5; it is set
\* and strictly ahead.
C24_Backoff ==
  [][\A j \in JobIds :
       (Holding(j)' < Holding(j) /\ jobs'[j].status = RETRYING) =>
         /\ jobs[j].attempt >= 1
         /\ jobs'[j].attempt = jobs[j].attempt
         /\ jobs'[j].next_retry_at # NULL
         /\ jobs'[j].next_retry_at > 0
         /\ jobs'[j].next_retry_at = Pow(RETRY_BACKOFF_BASE, jobs[j].attempt)
         /\ jobs[j].attempt <= 5 =>
              jobs'[j].next_retry_at = Backoffs[jobs[j].attempt]]_vars

\* the fifth attempt has just failed: RETRYING, due in 32 seconds
C24_Witness ==
  \E j \in JobIds :
    /\ jobs[j].status = RETRYING
    /\ jobs[j].attempt = 5
    /\ jobs[j].next_retry_at = 32
    /\ stats.retries = 5

\* the entries of id in the queue q
EntriesOf(q, id) == {e \in q : e[1] = id}

\* C26: on every queue and for every id, enqueue(id, p); enqueue(id, p')
\* leaves one entry for id, of priority p', and at most one entry more than
\* before, the other ids' entries as they were; on every processing set,
\* mark_done(id) twice, or for an id not in the set, is mark_done(id) once.
C26_Idempotent ==
  /\ \A id \in JobIds : Cardinality(EntriesOf(queue, id)) <= 1
  /\ \A id \in JobIds : \A p1, p2 \in AllPriorities :
       LET q1 == enqueue(queue, id, p1)
           q2 == enqueue(q1, id, p2)
       IN  /\ EntriesOf(q2, id) = {<<id, 0 - p2>>}
           /\ Cardinality(q2) = Cardinality(q1)
           /\ Cardinality(q2) <= Cardinality(queue) + 1
           /\ \A i \in JobIds \ {id} : EntriesOf(q2, i) = EntriesOf(queue, i)
           /\ enqueue(q2, id, p2) = q2
  /\ \A id \in JobIds :
       LET p1 == mark_done(processing, id)
       IN  /\ mark_done(p1, id) = p1
           /\ id \notin p1
           /\ p1 \subseteq processing
           /\ id \notin processing => p1 = processing

\* both ids are queued with different priorities, one of them put there by an
\* enqueue, and mark_done has emptied the processing set
C26_Witness ==
  /\ \A id \in JobIds : Cardinality(EntriesOf(queue, id)) = 1
  /\ \E e, f \in queue : e[1] # f[1] /\ e[2] # f[2]
  /\ processing = {}

\* C22: a job whose type has no handler is never RETRYING; the executor that
\* claimed it takes it from RUNNING to FAILED on attempt 1 with the no-handler
\* message, adding one to the failed counter and to no other, whatever its
\* max_retries.
C22_NoHandlerFails ==
  [][\A j \in JobIds :
       (rowState[j] # "none" /\ jobs[j].job_type \notin HANDLER_MAP) =>
         /\ jobs'[j].status # RETRYING
         /\ jobs'[j].status = FAILED => jobs'[j].attempt = 1
         /\ Holding(j)' < Holding(j) =>
              (/\ jobs[j].status = RUNNING
               /\ jobs'[j].status = FAILED
               /\ jobs'[j].error_message = PlainError("no_handler")
               /\ stats' = [stats EXCEPT !.failed = @ + 1]
               /\ stats'.retries = stats.retries)]_vars

\* a job of max_retries = MaxRetries and a type without handler is FAILED
\* after its first attempt
C22_Witness ==
  \E j \in JobIds :
    /\ rowState[j] = "committed"
    /\ jobs[j].job_type \notin HANDLER_MAP
    /\ jobs[j].max_retries = MaxRetries
    /\ jobs[j].status = FAILED /\ jobs[j].attempt = 1
    /\ jobs[j].error_message = PlainError("no_handler")
    /\ stats.failed = 1 /\ stats.retries = 0

\* C27: stop() leaves every executor task alone, which ends by its own
\* outcome; from the moment stop() has begun the dispatcher starts no
\* executor; stop() has returned only with the active set empty and every
\* permit back.
C27_StopStep(d) ==
  /\ loops'[d] # loops[d] => tasks'[d] = tasks[d]
  /\ loops[d] \in {"stopping", "stopped"} =>
       /\ loops'[d] \in {"stopping", "stopped"}
       /\ BagCardinality(tasks'[d]) <= BagCardinality(tasks[d])
       /\ \A j \in JobIds : TasksAt(d, j, {"claim"})' <= TasksAt(d, j, {"claim"})
       /\ \A j \in JobIds :
            TasksAt(d, j, {"run"})' < TasksAt(d, j, {"run"}) =>
              jobs'[j].status \in {COMPLETED, RETRYING, FAILED}
  /\ loops'[d] = "stopped" =>
       (tasks'[d] = EmptyBag /\ semaphore'[d] = MAX_WORKERS)

C27_StopWaits == [][\A d \in Dispatchers : C27_StopStep(d)]_vars

\* stop() was called while executors were active and is about to return: the
\* last of them has finished, the job completed by this dispatcher
C27_Witness ==
  \E d \in Dispatchers : \E j \in JobIds :
    /\ loops[d] = "stopping"
    /\ tasks[d] = EmptyBag /\ semaphore[d] = MAX_WORKERS
    /\ jobs[j].status = COMPLETED /\ jobs[j].worker_id = d

\* stop() waits in its gather for an executor that is in its handler
C27_WitnessWaiting ==
  \E d \in Dispatchers : \E j \in JobIds :
    /\ loops[d] = "stopping"
    /\ TasksAt(d, j, {"run"}) = 1
    /\ jobs[j].status = RUNNING /\ jobs[j].worker_id = d

\* C21: an iteration of the poll loop that finds the queue unreachable reads
\* the store in the same iteration: it ends in the error sleep only when the
\* store has no PENDING or QUEUED job that is due.
C21_FallbackOnOutage ==
  [][\A d \in Dispatchers :
       (Running(d) /\ loops'[d] = "backoff") => FallbackFirst = {}]_vars

\* C29: a job that an executor has committed as COMPLETED stays as it is,
\* whatever becomes of the queue bookkeeping that follows the commit.
C29_CompletedKept ==
  [][\A j \in JobIds :
       jobs[j].status = COMPLETED => jobs'[j] = jobs[j]]_vars

\* C31: in store-only mode the sweep changes, at its commit, only rows that
\* were RETRYING when it locked them (a locked row keeps its status until the
\* commit), and makes those QUEUED with next_retry_at cleared; a row that left
\* RETRYING after the scan is as it was.
C31_SweepOnlyRetrying ==
  [][\A j \in JobIds :
       (rowLock[j] = "sweep" /\ rowLock'[j] = "free") =>
         jobs'[j] = IF jobs[j].status = RETRYING
                      THEN [jobs[j] EXCEPT !.status = QUEUED, !.next_retry_at = NULL]
                      ELSE jobs[j]]_vars

\* job j has a committed QUEUED row that is due, and nothing left that leads
\* to it: no queue entry, no executor task, no dispatcher holding its id
Orphaned(j) ==
  /\ rowState[j] = "committed"
  /\ jobs[j].status = QUEUED
  /\ (jobs[j].scheduled_at = NULL \/ jobs[j].scheduled_at <= 0)
  /\ \A e \in queue : e[1] # j
  /\ \A d \in Dispatchers :
       pollJob[d] # j /\ TasksAt(d, j, {"claim", "claimed", "run"}) = 0

\* C32: a submitted job whose queue entry was used up by a claim that failed
\* is not lost: with its row committed, QUEUED and due, the dispatchers,
\* fairly scheduled, come to claim it through the store fallback.
C32_OrphanClaimed ==
  \A j \in JobIds : Orphaned(j) ~> (jobs[j].status = RUNNING)

\* the id was dequeued and its claim failed before the insert was committed:
\* the row is committed and QUEUED at attempt 0, the queue is empty, the id
\* is still in the processing set and no executor is left
C32_Witness ==
  \E j \in JobIds :
    /\ Orphaned(j)
    /\ jobs[j].attempt = 0
    /\ queue = {}
    /\ j \in processing
    /\ \A d \in Dispatchers : Quiescent(d)

====
